---- MODULE Spec2Model ----
(***************************************************************************)
(* Model of src/src/fxratecollector/collect-rates.py: the FixerClient      *)
(* (_get, _send, get_rates) and the command-line program built on it.      *)
(*                                                                         *)
(* Text is a sequence of characters.  A date is written character by       *)
(* character; a currency code such as "USD" is one three-letter chunk, so  *)
(* the code USD is the text <<"USD">> and the empty string is <<>>.        *)
(* A float is an exact fraction [num, den] in lowest terms, den > 0.       *)
(***************************************************************************)
EXTENDS Integers, Sequences, FiniteSets, TLC

VARIABLES
    main,          \* position of the __main__ block ("none" when the client is used as a library)
    env_key,       \* os.getenv("FIXER_API_KEY", "")
    args,          \* argparse namespace: date, output, currencies, currencies_file
    fs,            \* the currency file on disk: missing, or its lines
    self_retries,  \* FixerClient.retries
    pc,            \* position of get_rates: "idle", "send", "returned", "raised"
    calls,         \* number of get_rates calls made on the client
    currencies,    \* the currencies list (resolved by __main__, passed to get_rates)
    at_date,       \* get_rates' at_date argument
    request,       \* endpoint and symbols of the request get_rates sends
    retries,       \* the local retries of _send
    log,           \* network events of the current call: "request" and "sleep"
    response,      \* the last provider response received by _get
    result,        \* the dict get_rates returned
    error,         \* the exception that left get_rates or __main__
    stdout,        \* what was printed
    output         \* the CSV file written by __main__

vars == <<main, env_key, args, fs, self_retries, pc, calls, currencies, at_date,
          request, retries, log, response, result, error, stdout, output>>

-----------------------------------------------------------------------------
(* Bounds of the model *)

MaxRetries == 2      \* retry budgets 0..MaxRetries given to FixerClient
MaxCalls == 2        \* get_rates calls on one client
MaxCurrencies == 2   \* length of the currencies list passed to get_rates
MaxRate == 2         \* EUR-based rates 0..MaxRate in a response
MaxArgLen == 3       \* characters of the --currencies argument
MaxLines == 2        \* lines of the currency file

(* Program constants *)

DefaultRetries == 1      \* retries: int = 1
RateLimitCode == 106     \* exc.error_code == 106
NoErrorCode == 0         \* data.get("error", {}).get("code", 0)
NoUsdRate == 0           \* rates_eur_base.get("USD", 0)

-----------------------------------------------------------------------------
(* Python values *)

None == [some |-> FALSE, val |-> <<>>]
Some(v) == [some |-> TRUE, val |-> v]

Truthy(opt) == opt.some /\ opt.val # <<>>      \* `if s:` for s: str | None

Range(s) == {s[i] : i \in 1..Len(s)}

EmptyDict == [k \in {} |-> 0]

USD == <<"USD">>
GBP == <<"GBP">>
EUR == <<"EUR">>

RECURSIVE Gcd(_, _)
Gcd(a, b) == IF b = 0 THEN a ELSE Gcd(b, a % b)

Abs(a) == IF a < 0 THEN -a ELSE a

\* float true division a / b (b # 0), kept exact
TrueDiv(a, b) ==
    LET g == Gcd(Abs(a), Abs(b))
        s == IF b < 0 THEN -1 ELSE 1
    IN  [num |-> (s * a) \div g, den |-> (s * b) \div g]

\* the float literal 1.0
One == [num |-> 1, den |-> 1]

-----------------------------------------------------------------------------
(* str.strip() and str.split(",") *)

IsSpace(c) == c = " "

RECURSIVE LStrip(_)
LStrip(s) == IF s # <<>> /\ IsSpace(Head(s)) THEN LStrip(Tail(s)) ELSE s

RECURSIVE RStrip(_)
RStrip(s) ==
    IF s # <<>> /\ IsSpace(s[Len(s)]) THEN RStrip(SubSeq(s, 1, Len(s) - 1)) ELSE s

Strip(s) == RStrip(LStrip(s))

CommaAt(s) == {i \in 1..Len(s) : s[i] = ","}

FirstComma(s) == CHOOSE i \in CommaAt(s) : \A j \in CommaAt(s) : i <= j

RECURSIVE Split(_)
Split(s) ==
    IF CommaAt(s) = {} THEN <<s>>
    ELSE <<SubSeq(s, 1, FirstComma(s) - 1)>>
             \o Split(SubSeq(s, FirstComma(s) + 1, Len(s)))

RECURSIVE StripAll(_)
StripAll(parts) ==
    IF parts = <<>> THEN <<>> ELSE <<Strip(Head(parts))>> \o StripAll(Tail(parts))

RECURSIVE NonBlank(_)
NonBlank(lines) ==
    IF lines = <<>> THEN <<>>
    ELSE (IF Strip(Head(lines)) # <<>> THEN <<Strip(Head(lines))>> ELSE <<>>)
             \o NonBlank(Tail(lines))

-----------------------------------------------------------------------------
(* datetime.strptime(s, "%Y-%m-%d") *)

Digits == {"0", "1", "2", "3", "4", "5", "6", "7", "8", "9"}

DigitValue ==
    "0" :> 0 @@ "1" :> 1 @@ "2" :> 2 @@ "3" :> 3 @@ "4" :> 4 @@
    "5" :> 5 @@ "6" :> 6 @@ "7" :> 7 @@ "8" :> 8 @@ "9" :> 9

IsDigit(s, i) == i <= Len(s) /\ s[i] \in Digits
CharIn(s, i, set) == i <= Len(s) /\ s[i] \in set
Val(s, i) == DigitValue[s[i]]

NoMatch == [ok |-> FALSE, val |-> 0, next |-> 0]
Match(v, n) == [ok |-> TRUE, val |-> v, next |-> n]

\* %Y is (?P<Y>\d\d\d\d)
MatchY(s, i) ==
    IF IsDigit(s, i) /\ IsDigit(s, i + 1) /\ IsDigit(s, i + 2) /\ IsDigit(s, i + 3)
    THEN Match(1000 * Val(s, i) + 100 * Val(s, i + 1) + 10 * Val(s, i + 2) + Val(s, i + 3),
               i + 4)
    ELSE NoMatch

\* %m is (?P<m>1[0-2]|0[1-9]|[1-9]): the alternatives, in the order tried
MatchM(s, i) ==
    << IF CharIn(s, i, {"1"}) /\ CharIn(s, i + 1, {"0", "1", "2"})
           THEN Match(10 + Val(s, i + 1), i + 2) ELSE NoMatch,
       IF CharIn(s, i, {"0"}) /\ CharIn(s, i + 1, Digits \ {"0"})
           THEN Match(Val(s, i + 1), i + 2) ELSE NoMatch,
       IF CharIn(s, i, Digits \ {"0"})
           THEN Match(Val(s, i), i + 1) ELSE NoMatch >>

\* %d is (?P<d>3[0-1]|[1-2]\d|0[1-9]|[1-9]| [1-9]): the alternatives, in the order tried
MatchD(s, i) ==
    << IF CharIn(s, i, {"3"}) /\ CharIn(s, i + 1, {"0", "1"})
           THEN Match(30 + Val(s, i + 1), i + 2) ELSE NoMatch,
       IF CharIn(s, i, {"1", "2"}) /\ IsDigit(s, i + 1)
           THEN Match(10 * Val(s, i) + Val(s, i + 1), i + 2) ELSE NoMatch,
       IF CharIn(s, i, {"0"}) /\ CharIn(s, i + 1, Digits \ {"0"})
           THEN Match(Val(s, i + 1), i + 2) ELSE NoMatch,
       IF CharIn(s, i, Digits \ {"0"})
           THEN Match(Val(s, i), i + 1) ELSE NoMatch,
       IF CharIn(s, i, {" "}) /\ CharIn(s, i + 1, Digits \ {"0"})
           THEN Match(Val(s, i + 1), i + 2) ELSE NoMatch >>

\* the first alternative of a group that matches, among those (usable) after
\* which the rest of the pattern matches
FirstOk(alts, usable) ==
    LET good == {k \in usable : alts[k].ok}
    IN  IF good = {} THEN NoMatch
        ELSE alts[CHOOSE k \in good : \A j \in good : k <= j]

IsLeap(y) == (y % 4 = 0) /\ ((y % 100 # 0) \/ (y % 400 = 0))

DaysInMonth(y, m) ==
    IF m = 2 THEN (IF IsLeap(y) THEN 29 ELSE 28)
    ELSE IF m \in {4, 6, 9, 11} THEN 30 ELSE 31

\* TRUE iff strptime returns a datetime, FALSE iff it raises ValueError
Strptime(s) ==
    LET y == MatchY(s, 1)
        HyphenAt(i) == CharIn(s, i, {"-"})
        d(from) == FirstOk(MatchD(s, from), 1..5)
        ms == MatchM(s, y.next + 1)
        MOk(a) == a.ok /\ HyphenAt(a.next) /\ d(a.next + 1).ok
        m == IF y.ok /\ HyphenAt(y.next) THEN FirstOk(ms, {k \in 1..3 : MOk(ms[k])})
             ELSE NoMatch
        dd == IF m.ok THEN d(m.next + 1) ELSE NoMatch
    IN  /\ dd.ok                          \* the regex matches a prefix
        /\ dd.next = Len(s) + 1           \* no "unconverted data remains"
        /\ y.val >= 1                     \* datetime.MINYEAR
        /\ dd.val <= DaysInMonth(y.val, m.val)

-----------------------------------------------------------------------------
(* Inputs *)

DateLeapDay == <<"2", "0", "2", "4", "-", "0", "2", "-", "2", "9">>     \* "2024-02-29"
DateNoSuchDay == <<"2", "0", "2", "3", "-", "0", "2", "-", "2", "9">>   \* "2023-02-29"
DateUnpadded == <<"2", "0", "2", "4", "-", "1", "-", "5">>              \* "2024-1-5"
DateEmpty == <<>>                                                       \* ""

DateInputs == {DateLeapDay, DateNoSuchDay, DateUnpadded, DateEmpty}

DateArgs == {None} \cup {Some(d) : d \in DateInputs}

SeqsUpTo(S, n) == UNION {[1..k -> S] : k \in 0..n}

\* the currencies lists passed to get_rates
CurrencyLists == SeqsUpTo({USD, GBP}, MaxCurrencies)

\* the rates a provider response may carry: any keys, any values
RateDicts == UNION {[K -> 0..MaxRate] : K \in SUBSET {USD, GBP, EUR}}

ErrorCodes == {None, Some(101), Some(RateLimitCode)}
ErrorInfos == {None, Some("info")}

SuccessResponses ==
    {[success |-> TRUE, rates |-> r, code |-> None, info |-> None] : r \in RateDicts}

FailureResponses ==
    {[success |-> FALSE, rates |-> EmptyDict, code |-> c, info |-> i] :
        c \in ErrorCodes, i \in ErrorInfos}

NoResponse == [success |-> FALSE, rates |-> EmptyDict, code |-> None, info |-> None]
NoRequest == [endpoint |-> <<>>, symbols |-> {}]
NoResult == [some |-> FALSE, val |-> EmptyDict]
NoError == [type |-> "none", code |-> 0, message |-> ""]
NoOutput == [written |-> FALSE, name |-> <<>>, rows |-> {}]
NoArgs == [date |-> None, output |-> None, currencies |-> None, currencies_file |-> None]

Msg(text, n) == [text |-> text, n |-> n]

-----------------------------------------------------------------------------
(* FixerClient._get: the exception built from a failed response *)

Exception(type, message) == [type |-> type, code |-> 0, message |-> message]

FixerException(resp) ==
    [type |-> "FixerException",
     code |-> IF resp.code.some THEN resp.code.val ELSE NoErrorCode,
     message |-> IF resp.info.some THEN resp.info.val ELSE "Unknown error"]

(* FixerClient._send: the test of the except branch *)

ShouldRetryAnyCode(error_code, left) == left > 0
ShouldRetryOnceMore(error_code, left) == error_code = RateLimitCode /\ left >= 0

ShouldRetry(error_code, left) == error_code = RateLimitCode /\ left > 0

(* FixerClient._send: the budget a call starts with *)

Budget(client_retries) == client_retries

(* FixerClient.get_rates: the conversion *)

Has(dict, key) == key \in DOMAIN dict

EurToUsdRateDefaultOne(rates_eur_base) ==
    IF Has(rates_eur_base, USD) THEN rates_eur_base[USD] ELSE NoUsdRate + 1

\* rates_eur_base.get("USD", 0)
EurToUsdRate(rates_eur_base) ==
    IF Has(rates_eur_base, USD) THEN rates_eur_base[USD] ELSE NoUsdRate

CannotConvert(eur_to_usd_rate) == eur_to_usd_rate = 0

ToUsdBaseNotDivided(rates_eur_base, eur_to_usd_rate) ==
    [currency \in DOMAIN rates_eur_base |->
        IF currency = USD THEN One
        ELSE TrueDiv(rates_eur_base[currency], 1)]

\* the loop over rates_eur_base.items()
ToUsdBase(rates_eur_base, eur_to_usd_rate) ==
    [currency \in DOMAIN rates_eur_base |->
        IF currency = USD THEN One
        ELSE TrueDiv(rates_eur_base[currency], eur_to_usd_rate)]

Pop(dict, key) == [k \in DOMAIN dict \ {key} |-> dict[k]]

DropUsdNever(rates_usd_base, requested) == rates_usd_base
DropUsdAlways(rates_usd_base, requested) == Pop(rates_usd_base, USD)

\* if "USD" not in currencies: rates_usd_base.pop("USD", None)
DropUsd(rates_usd_base, requested) ==
    IF USD \notin Range(requested) THEN Pop(rates_usd_base, USD) ELSE rates_usd_base

\* the argument checks at the head of get_rates
ArgumentError(cur, date) ==
    IF cur = <<>> THEN Exception("ValueError", "Currencies list cannot be empty.")
    ELSE IF date.some /\ ~Strptime(date.val)
         THEN Exception("ValueError", "Invalid date format")
         ELSE NoError

RequestFor(cur, date) ==
    [endpoint |-> IF date.some THEN date.val ELSE <<"latest">>,
     symbols |-> Range(cur) \cup {USD}]

\* get_rates from its entry to the first request (or to the ValueError), on a
\* client whose retries attribute is client_retries
EnterGetRatesWith(cur, date, client_retries) ==
    /\ currencies' = cur
    /\ at_date' = date
    /\ calls' = calls + 1
    /\ log' = <<>>
    /\ response' = NoResponse
    /\ result' = NoResult
    /\ error' = ArgumentError(cur, date)
    /\ IF error' # NoError
       THEN /\ pc' = "raised"
            /\ request' = NoRequest
            /\ retries' = 0
       ELSE /\ pc' = "send"
            /\ request' = RequestFor(cur, date)
            /\ retries' = Budget(client_retries)

EnterGetRates(cur, date) == EnterGetRatesWith(cur, date, self_retries)

\* a call of get_rates on a constructed client
GetRatesCall ==
    /\ main = "none"
    /\ pc = "idle"
    /\ calls < MaxCalls
    /\ \E cur \in CurrencyLists, date \in DateArgs : EnterGetRates(cur, date)
    /\ UNCHANGED <<main, env_key, args, fs, self_retries, stdout, output>>

\* _get returns the data; get_rates converts it and returns, or raises RuntimeError
SendSuccess ==
    /\ pc = "send"
    /\ \E resp \in SuccessResponses :
        /\ response' = resp
        /\ log' = Append(log, "request")
        /\ IF CannotConvert(EurToUsdRate(resp.rates))
           THEN /\ pc' = "raised"
                /\ error' = Exception("RuntimeError", "USD rate not found in API response")
                /\ result' = NoResult
           ELSE /\ pc' = "returned"
                /\ error' = NoError
                /\ result' = Some(DropUsd(ToUsdBase(resp.rates, EurToUsdRate(resp.rates)),
                                           currencies))
    /\ UNCHANGED <<main, env_key, args, fs, self_retries, calls, currencies, at_date,
                   request, retries, stdout, output>>

\* _get raises, _send prints, spends one retry, sleeps and loops
SendRateLimited ==
    /\ pc = "send"
    /\ \E resp \in FailureResponses :
        /\ ShouldRetry(FixerException(resp).code, retries)
        /\ response' = resp
        /\ stdout' = Append(stdout, Msg("Rate limit reached. Attempts left:", retries))
        /\ retries' = retries - 1
        /\ log' = log \o <<"request", "sleep">>
    /\ UNCHANGED <<main, env_key, args, fs, self_retries, pc, calls, currencies, at_date,
                   request, result, error, output>>

\* _get raises and _send raises the exception again
SendFailed ==
    /\ pc = "send"
    /\ \E resp \in FailureResponses :
        /\ ~ShouldRetry(FixerException(resp).code, retries)
        /\ response' = resp
        /\ error' = FixerException(resp)
        /\ pc' = "raised"
        /\ log' = Append(log, "request")
    /\ UNCHANGED <<main, env_key, args, fs, self_retries, calls, currencies, at_date,
                   request, retries, result, stdout, output>>

\* get_rates has returned or raised: its frame is gone and the caller goes on
Resume ==
    /\ main = "none"
    /\ pc \in {"returned", "raised"}
    /\ pc' = "idle"
    /\ currencies' = <<>>
    /\ at_date' = None
    /\ request' = NoRequest
    /\ retries' = 0
    /\ log' = <<>>
    /\ response' = NoResponse
    /\ result' = NoResult
    /\ error' = NoError
    /\ UNCHANGED <<main, env_key, args, fs, self_retries, calls, stdout, output>>

-----------------------------------------------------------------------------
(* A FixerClient used as a library: constructed with a retry budget, then     *)
(* get_rates is called on it.                                                 *)

Init ==
    /\ main = "none"
    /\ env_key = <<"key">>
    /\ args = NoArgs
    /\ fs = None
    /\ self_retries \in 0..MaxRetries
    /\ pc = "idle"
    /\ calls = 0
    /\ currencies = <<>>
    /\ at_date = None
    /\ request = NoRequest
    /\ retries = 0
    /\ log = <<>>
    /\ response = NoResponse
    /\ result = NoResult
    /\ error = NoError
    /\ stdout = <<>>
    /\ output = NoOutput

Next == GetRatesCall \/ SendSuccess \/ SendRateLimited \/ SendFailed \/ Resume

Spec == Init /\ [][Next]_vars

-----------------------------------------------------------------------------
(* The command-line program: the __main__ block *)

\* the --currencies argument: codes, commas and blanks
ArgTexts == SeqsUpTo({"USD", "GBP", ",", " "}, MaxArgLen)

\* the lines of a currency file, and the files
LineInputs == {<<"USD">>, <<"GBP">>, <<" ", "USD">>, <<>>}
Files == SeqsUpTo(LineInputs, MaxLines)

OutputArgs == {None, Some(<<"out.csv">>)}

\* datetime.now().strftime('%Y-%m-%d')
Today == <<"2", "0", "2", "4", "-", "0", "3", "-", "0", "1">>

\* the module-level currencies list
Resolve(arg, lines) == IF Truthy(arg) THEN StripAll(Split(arg.val)) ELSE NonBlank(lines)

\* elif len(currencies) == 1 and currencies[0] == "USD"
NothingToFetch(list) == Len(list) = 1 /\ list[1] = USD

DateStr == IF Truthy(args.date) THEN args.date.val ELSE Today

OutputFilename ==
    IF Truthy(args.output) THEN args.output.val
    ELSE <<"exchange_rates_">> \o DateStr \o <<".csv">>

Records(rates) ==
    {[date |-> DateStr, currency |-> c, usd_rate |-> rates[c]] : c \in DOMAIN rates}

Exit(with, exc) ==
    /\ main' = with
    /\ error' = exc

\* API_KEY = os.getenv(...); raise ValueError if it is empty
MainApiKey ==
    /\ main = "start"
    /\ IF env_key = <<>>
       THEN Exit("crashed", Exception("ValueError", "FIXER_API_KEY environment variable must be set"))
       ELSE main' = "resolve" /\ UNCHANGED error
    /\ UNCHANGED <<env_key, args, fs, self_retries, pc, calls, currencies, at_date,
                   request, retries, log, response, result, stdout, output>>

\* the list from --currencies, or from the currency file
MainResolve ==
    /\ main = "resolve"
    /\ IF ~Truthy(args.currencies) /\ ~fs.some
       THEN /\ Exit("crashed", Exception("FileNotFoundError", "No such file or directory"))
            /\ UNCHANGED currencies
       ELSE /\ main' = "check_list"
            /\ currencies' = Resolve(args.currencies, fs.val)
            /\ UNCHANGED error
    /\ UNCHANGED <<env_key, args, fs, self_retries, pc, calls, at_date,
                   request, retries, log, response, result, stdout, output>>

\* the empty list and the USD-only list: print and exit(1)
MainCheckList ==
    /\ main = "check_list"
    /\ IF Len(currencies) = 0
       THEN /\ stdout' = Append(stdout, Msg("Currency list is empty.", 0))
            /\ Exit("exit1", Exception("SystemExit", "1"))
       ELSE IF NothingToFetch(currencies)
       THEN /\ stdout' = Append(stdout, Msg("Currency list contains only USD.", 0))
            /\ Exit("exit1", Exception("SystemExit", "1"))
       ELSE main' = "check_date" /\ UNCHANGED <<stdout, error>>
    /\ UNCHANGED <<env_key, args, fs, self_retries, pc, calls, currencies, at_date,
                   request, retries, log, response, result, output>>

\* if args.date: strptime or ValueError; then the "Fetching" line
MainCheckDate ==
    /\ main = "check_date"
    /\ IF Truthy(args.date) /\ ~Strptime(args.date.val)
       THEN /\ Exit("crashed", Exception("ValueError", "Invalid date format"))
            /\ UNCHANGED stdout
       ELSE /\ main' = "fetch"
            /\ stdout' = Append(stdout, Msg("Fetching rates for", Len(currencies)))
            /\ UNCHANGED error
    /\ UNCHANGED <<env_key, args, fs, self_retries, pc, calls, currencies, at_date,
                   request, retries, log, response, result, output>>

\* fixer = FixerClient(API_KEY); fixer.get_rates(currencies, args.date)
MainFetch ==
    /\ main = "fetch"
    /\ pc = "idle"
    /\ self_retries' = DefaultRetries
    /\ main' = "fetching"
    /\ EnterGetRatesWith(currencies, args.date, DefaultRetries)
    /\ UNCHANGED <<env_key, args, fs, stdout, output>>

MainCrashAfterWriting ==
    /\ main = "fetching"
    /\ pc = "raised"
    /\ main' = "crashed"
    /\ output' = [written |-> TRUE, name |-> OutputFilename, rows |-> {}]
    /\ UNCHANGED <<env_key, args, fs, self_retries, pc, calls, currencies, at_date,
                   request, retries, log, response, result, error, stdout>>

\* the exception of get_rates leaves the program
MainCrash ==
    /\ main = "fetching"
    /\ pc = "raised"
    /\ main' = "crashed"
    /\ UNCHANGED <<env_key, args, fs, self_retries, pc, calls, currencies, at_date,
                   request, retries, log, response, result, error, stdout, output>>

\* the records, the DataFrame and to_csv
MainWrite ==
    /\ main = "fetching"
    /\ pc = "returned"
    /\ main' = "done"
    /\ output' = [written |-> TRUE, name |-> OutputFilename, rows |-> Records(result.val)]
    /\ stdout' = stdout \o <<Msg("Successfully got rates", Cardinality(DOMAIN result.val)),
                              Msg("Data saved", 0)>>
    /\ UNCHANGED <<env_key, args, fs, self_retries, pc, calls, currencies, at_date,
                   request, retries, log, response, result, error>>

\* argparse: --currencies and --currencies-file exclude each other
ArgInputs ==
    {a \in [date : DateArgs, output : OutputArgs,
            currencies : {None} \cup {Some(t) : t \in ArgTexts},
            currencies_file : {None, Some(<<"list.txt">>)}] :
        ~(a.currencies.some /\ a.currencies_file.some)}

\* the currency file is missing or holds lines; it is not opened, and left
\* out here, when --currencies gives the list
FileInputs(a) ==
    IF Truthy(a.currencies) THEN {None} ELSE {None} \cup {Some(f) : f \in Files}

MainInit ==
    /\ main = "start"
    /\ env_key \in {<<>>, <<"key">>}
    /\ args \in ArgInputs
    /\ fs \in FileInputs(args)
    /\ self_retries = 0
    /\ pc = "idle"
    /\ calls = 0
    /\ currencies = <<>>
    /\ at_date = None
    /\ request = NoRequest
    /\ retries = 0
    /\ log = <<>>
    /\ response = NoResponse
    /\ result = NoResult
    /\ error = NoError
    /\ stdout = <<>>
    /\ output = NoOutput

MainNext ==
    \/ MainApiKey \/ MainResolve \/ MainCheckList \/ MainCheckDate \/ MainFetch
    \/ SendSuccess \/ SendRateLimited \/ SendFailed
    \/ MainWrite \/ MainCrash

MainSpec == MainInit /\ [][MainNext]_vars

-----------------------------------------------------------------------------
(* Properties of get_rates *)

Last(s) == s[Len(s)]

RECURSIVE Attempts(_)
\* k failed attempts, each followed by its wait
Attempts(k) == IF k = 0 THEN <<>> ELSE <<"request", "sleep">> \o Attempts(k - 1)

Count(s, e) == Cardinality({i \in 1..Len(s) : s[i] = e})

InCall == pc \in {"send", "returned", "raised"}

RateLimitError == error.type = "FixerException" /\ error.code = 106

\* C1, first part: in every call, whatever came before it on the client, the
\* requests and waits alternate, one retry is spent per wait, and a call whose
\* responses were all code-106 failures ends after exactly n + 1 requests and
\* n waits, the last event being the failed request, with the ApiError 106.
C1_RetryBudget ==
    /\ pc = "send" =>
          /\ retries \in 0..self_retries
          /\ log = Attempts(self_retries - retries)
    /\ (pc = "raised" /\ RateLimitError) =>
          /\ log = Attempts(self_retries) \o <<"request">>
          /\ Count(log, "request") = self_retries + 1
          /\ Count(log, "sleep") = self_retries
          /\ retries = 0

\* C1, second part as amended: a successful response that follows a 106
\* failure ends the call without an ApiError, and with a result whenever the
\* response carries a non-zero USD rate.
C1_SuccessAfterRateLimit ==
    (InCall /\ response.success /\ Count(log, "sleep") > 0) =>
        /\ error.type # "FixerException"
        /\ (USD \in DOMAIN response.rates /\ response.rates[USD] # 0) =>
              (pc = "returned" /\ result.some /\ error = NoError)

\* C1 as amended: the retry budget is spent exactly, per call, and a success
\* after a 106 failure returns a result when the response can be converted.
C1_Retry == C1_RetryBudget /\ C1_SuccessAfterRateLimit

\* C1 as stated: as C1_RetryBudget, and a successful response that follows a
\* 106 failure always makes the call return a result instead of an error.
C1_AsStated ==
    /\ C1_RetryBudget
    /\ (InCall /\ response.success /\ Count(log, "sleep") > 0) =>
          (pc = "returned" /\ result.some /\ error = NoError)

\* a second call on a client of budget 2, after a first call that spent its
\* budget, is again refused three times and waits twice
C1_Witness ==
    /\ pc = "raised" /\ RateLimitError
    /\ self_retries = 2 /\ calls = 2
    /\ Len(stdout) = 4
    /\ Len(log) = 5

\* C2: a failure response with a code other than 106 (or with no code, read
\* as 0) ends the call at once: the last event is that request, no wait
\* follows it, the remaining budget is left unspent, and the error raised
\* carries the response's code and message.
C2_FatalError ==
    (InCall /\ response # NoResponse /\ ~response.success
        /\ ~(response.code.some /\ response.code.val = 106)) =>
        /\ pc = "raised"
        /\ error.type = "FixerException"
        /\ error.code = (IF response.code.some THEN response.code.val ELSE 0)
        /\ error.message = (IF response.info.some THEN response.info.val
                            ELSE "Unknown error")
        /\ Last(log) = "request"
        /\ log = Attempts(self_retries - retries) \o <<"request">>
        /\ ~result.some

\* a non-106 failure answers the first request of a call that has budget left
C2_Witness ==
    /\ pc = "raised" /\ response.code = Some(101) /\ response.info.some
    /\ retries = 2 /\ log = <<"request">>

\* C4 as stated: every key of the returned RateSet was originally requested.
C4_OnlyRequested ==
    pc = "returned" => DOMAIN result.val \subseteq Range(currencies)

\* C5 as stated: USD is always part of the request, so from a response with a
\* positive USD entry the returned RateSet has USD at exactly 1.0.
C5_AsStated ==
    (pc = "returned" /\ USD \in request.symbols /\ response.rates[USD] > 0) =>
        (USD \in DOMAIN result.val /\ result.val[USD] = One)

\* C5 as amended: whenever USD was originally requested, the RateSet returned
\* from a response with a positive USD entry has USD at exactly 1.0.
C5_UsdIsOne ==
    (pc = "returned" /\ USD \in Range(currencies) /\ response.rates[USD] > 0) =>
        (USD \in DOMAIN result.val /\ result.val[USD] = One)

\* USD requested, and the provider's USD rate is not 1
C5_Witness ==
    /\ pc = "returned" /\ USD \in Range(currencies)
    /\ response.rates[USD] = 2 /\ result.val[USD] = One

\* C6: if USD was not originally requested, the returned RateSet has no USD
\* key, whatever the provider answered.
C6_NoUsdLeak ==
    (pc = "returned" /\ USD \notin Range(currencies)) => USD \notin DOMAIN result.val

\* USD not requested, sent as the anchor, answered by the provider, absent from the result
C6_Witness ==
    /\ pc = "returned" /\ USD \notin Range(currencies)
    /\ USD \in request.symbols /\ USD \in DOMAIN response.rates
    /\ GBP \in DOMAIN result.val /\ USD \notin DOMAIN result.val

\* the fraction f equals a / b
EqualsQuotient(f, a, b) == f.den > 0 /\ f.num * b = f.den * a

\* C7: from a response with a positive USD entry, every currency that is in
\* the response and was requested is in the result at rateEur[c] / rateEur[USD],
\* USD itself at 1; the response still holds its own entries, USD included.
C7_Rebased ==
    (pc = "returned" /\ response.rates[USD] > 0) =>
        /\ \A c \in DOMAIN response.rates \cap Range(currencies) :
              /\ c \in DOMAIN result.val
              /\ IF c = USD THEN result.val[c] = One
                 ELSE EqualsQuotient(result.val[c], response.rates[c], response.rates[USD])
        /\ response \in SuccessResponses
        /\ USD \in DOMAIN response.rates

\* GBP requested, 1 GBP per EUR and 2 USD per EUR: GBP is at 1/2
C7_Witness ==
    /\ pc = "returned" /\ GBP \in Range(currencies)
    /\ GBP \in DOMAIN response.rates
    /\ response.rates[GBP] = 1 /\ response.rates[USD] = 2
    /\ result.val[GBP] = [num |-> 1, den |-> 2]

\* C8: a successful response with no USD entry, or with USD at 0, makes the
\* call fail with the conversion error and no RateSet; it is not retried: that
\* request is the last event and the remaining budget is left unspent.
C8_NoAnchor ==
    (InCall /\ response.success
        /\ (USD \notin DOMAIN response.rates \/ response.rates[USD] = 0)) =>
        /\ pc = "raised"
        /\ error.type = "RuntimeError"
        /\ ~result.some
        /\ Last(log) = "request"
        /\ log = Attempts(self_retries - retries) \o <<"request">>

\* a response without USD arrives while budget is left
C8_Witness ==
    /\ pc = "raised" /\ error.type = "RuntimeError"
    /\ response.success /\ USD \notin DOMAIN response.rates
    /\ GBP \in DOMAIN response.rates
    /\ retries > 0

\* a date of the shape YYYY-MM-DD: four digits, two digits, two digits
MatchesYmd(s) ==
    /\ Len(s) = 10
    /\ \A i \in {1, 2, 3, 4, 6, 7, 9, 10} : s[i] \in Digits
    /\ s[5] = "-" /\ s[8] = "-"

\* C9 as stated: a call with an empty currencies list, or with a date that is
\* present and is not of the shape YYYY-MM-DD, fails with the argument error
\* before any request: nothing is sent and nothing waits.
C9_InvalidArgument ==
    (InCall /\ (currencies = <<>> \/ (at_date.some /\ ~MatchesYmd(at_date.val)))) =>
        /\ pc = "raised"
        /\ error.type = "ValueError"
        /\ log = <<>>
        /\ request = NoRequest

-----------------------------------------------------------------------------
(* Properties of the program *)

Failed == main \in {"crashed", "exit1"}

\* C3: the output file is written only once the fetch and the conversion
\* have both succeeded, and then holds one row per rate of the result; a run
\* that ends in an error has written nothing.
C3_AllOrNothing ==
    /\ output.written =>
          /\ main = "done"
          /\ pc = "returned" /\ result.some /\ error = NoError
          /\ response.success /\ response.rates[USD] # 0
          /\ {r.currency : r \in output.rows} = DOMAIN result.val
          /\ \A r \in output.rows : r.usd_rate = result.val[r.currency]
    /\ Failed => (error # NoError /\ output = NoOutput)
    /\ main = "done" => output.written

\* a run that wrote a file of two rows after one retry
C3_Witness ==
    /\ main = "done" /\ output.written
    /\ log = <<"request", "sleep", "request">>
    /\ Cardinality(output.rows) = 2

\* the list was resolved and the checks on it are behind
ListChecked ==
    \/ main \in {"exit1", "check_date", "fetch", "fetching", "done"}
    \/ main = "crashed" /\ error.type \notin {"FileNotFoundError"}
                        /\ env_key # <<>>

\* C10 as stated: whenever the resolved list is empty or all of its entries
\* are USD, the program prints a diagnostic and exits with code 1; nothing was
\* requested and no file is written.
C10_NothingToFetch ==
    (ListChecked /\ \A i \in 1..Len(currencies) : currencies[i] = USD) =>
        /\ main = "exit1"
        /\ Len(stdout) = 1
        /\ log = <<>> /\ request = NoRequest
        /\ output = NoOutput

=============================================================================
